---- MODULE Spec2Model ----
(***************************************************************************)
(* Forkcast backend (src/main.py): the POST /transcribe handler, the       *)
(* extraction cascade extract_video_url (Playwright render, raw HTML       *)
(* fetch, yt-dlp), the error classifier classify_error, the HTML scanner   *)
(* extract_video_src_from_html and the VTT decoder parse_vtt.              *)
(*                                                                         *)
(* Python str values are TLA+ strings; str operations are modelled on the  *)
(* characters (SubSeq on strings yields the slice).  None is the model     *)
(* value None, a missing dict key is Absent.                               *)
(***************************************************************************)
EXTENDS Integers, Sequences, FiniteSets, TLC

\* values of dict entries: a missing key, None, or a value
Absent == [k |-> "absent"]
None == [k |-> "none"]
Val(v) == [k |-> "val", v |-> v]

\* d.get(key): None for a missing key
Get(x) == IF x = Absent THEN None ELSE x

\* d.get(key, default)
GetOr(x, default) == IF x = Absent THEN default ELSE x

\* the truth value of a str or None entry
Truthy(x) == x.k = "val" /\ x.v # ""

\* x or 0, for an int or None entry
OrZero(x) == IF x.k = "val" THEN x.v ELSE 0

(***************************************************************************)
(* str primitives                                                          *)
(***************************************************************************)

\* the slice of characters a..b of a Python str (1-based, both ends
\* included); like a Python slice it is clamped to the string
Slice(s, a, b) ==
    LET lo == IF a < 1 THEN 1 ELSE a
        hi == IF b > Len(s) THEN Len(s) ELSE b
    IN  IF lo > hi THEN "" ELSE SubSeq(s, lo, hi)

\* s[i] of a Python str (1-based here)
CharAt(s, i) == Slice(s, i, i)

\* str.lower() on one character
LowerChar(c) ==
    CASE c = "A" -> "a" [] c = "B" -> "b" [] c = "C" -> "c" [] c = "D" -> "d"
      [] c = "E" -> "e" [] c = "F" -> "f" [] c = "G" -> "g" [] c = "H" -> "h"
      [] c = "I" -> "i" [] c = "J" -> "j" [] c = "K" -> "k" [] c = "L" -> "l"
      [] c = "M" -> "m" [] c = "N" -> "n" [] c = "O" -> "o" [] c = "P" -> "p"
      [] c = "Q" -> "q" [] c = "R" -> "r" [] c = "S" -> "s" [] c = "T" -> "t"
      [] c = "U" -> "u" [] c = "V" -> "v" [] c = "W" -> "w" [] c = "X" -> "x"
      [] c = "Y" -> "y" [] c = "Z" -> "z" [] OTHER -> c

\* the lower-cased characters a..b of s, by halves
RECURSIVE LowerRange(_, _, _)
LowerRange(s, a, b) ==
    IF a > b THEN ""
    ELSE IF a = b THEN LowerChar(CharAt(s, a))
    ELSE LET m == (a + b) \div 2
         IN  LowerRange(s, a, m) \o LowerRange(s, m + 1, b)

\* str.lower()
Lower(s) == LowerRange(s, 1, Len(s))

\* the least element of a non-empty set of integers
MinOf(S) == CHOOSE m \in S : \A n \in S : m <= n

\* the element of a one-element set
TheOne(S) == CHOOSE e \in S : TRUE

\* the greatest element of a non-empty set of integers
MaxOf(S) == CHOOSE m \in S : \A n \in S : n <= m

\* sub in s
Contains(s, sub) ==
    \E i \in 1..(Len(s) - Len(sub) + 1) : Slice(s, i, i + Len(sub) - 1) = sub

\* s.startswith(prefix)
StartsWith(s, prefix) ==
    Len(s) >= Len(prefix) /\ Slice(s, 1, Len(prefix)) = prefix

\* s ends with suffix
EndsWith(s, suffix) ==
    Len(s) >= Len(suffix) /\ Slice(s, Len(s) - Len(suffix) + 1, Len(s)) = suffix

(***************************************************************************)
(* classify_error                                                          *)
(***************************************************************************)

MsgForbidden == "Access denied: The video source is blocking access to this content"
MsgNotFound == "Video not found: The requested video could not be found"
MsgUnauthorized == "Unauthorized: Authentication required to access this content"
MsgTimeout == "Request timeout: Page took too long to load"
MsgUnavailable == "Service unavailable: Network error while accessing the video source"
MsgBadRequest == "Bad request: Unable to process this video URL"
MsgNoVideo == "No video URL available: Unable to extract video source URL"
MsgInternalPrefix == "Internal server error: "

\* the decision table of classify_error on error_str = str(error).lower()
\* and original_error = str(error); the result is the (status, message) pair
ClassifyLowered(error_str, original_error) ==
    IF Contains(error_str, "403") \/ Contains(error_str, "forbidden")
      THEN <<403, MsgForbidden>>
    ELSE IF Contains(error_str, "404") \/ Contains(error_str, "not found")
            \/ Contains(error_str, "does not exist")
      THEN <<404, MsgNotFound>>
    ELSE IF Contains(error_str, "401") \/ Contains(error_str, "unauthorized")
      THEN <<401, MsgUnauthorized>>
    ELSE IF Contains(error_str, "timeout") \/ Contains(error_str, "took too long")
      THEN <<408, MsgTimeout>>
    ELSE IF Contains(error_str, "connection") \/ Contains(error_str, "network")
      THEN <<503, MsgUnavailable>>
    ELSE IF Contains(error_str, "unsupported url")
            \/ Contains(error_str, "no video formats found")
            \/ Contains(error_str, "unable to extract")
            \/ Contains(error_str, "unable to download")
      THEN <<400, MsgBadRequest>>
    ELSE IF Contains(error_str, "no video url found") \/ Contains(error_str, "no video")
      THEN <<400, MsgNoVideo>>
    ELSE <<500, MsgInternalPrefix \o original_error>>

\* classify_error without the .lower() of error_str
classify_error_NoLower(error) == ClassifyLowered(error, error)

\* classify_error with the raw text appended to every message
classify_error_EchoesRaw(error) ==
    <<ClassifyLowered(Lower(error), error)[1],
      ClassifyLowered(Lower(error), error)[2] \o ": " \o error>>

\* classify_error, with the str() of the exception as its argument
classify_error(error) == ClassifyLowered(Lower(error), error)

(***************************************************************************)
(* extract_video_src_from_html                                             *)
(***************************************************************************)

IsQuote(c) == c = "\"" \/ c = "'"

\* the extensions of the alternation (?:mp4|webm|ogg|mov|avi|m3u8)
MediaExts == {"mp4", "webm", "ogg", "mov", "avi", "m3u8"}

\* the last index of the maximal run of characters from index a on that
\* satisfy "not a quote" (a - 1 when the run is empty): a greedy [^"']+
NonQuoteRunEnd(s, a) ==
    MinOf({j \in a..Len(s) : IsQuote(CharAt(s, j))} \cup {Len(s) + 1}) - 1

\* the last index of the maximal run of characters other than c from a on
RunEndNot(s, a, c) ==
    MinOf({j \in a..Len(s) : CharAt(s, j) = c} \cup {Len(s) + 1}) - 1

\* a match result: [ok, text (group 1), last (index of the match's last character)]
NoMatch == [ok |-> FALSE, text |-> "", last |-> 0]

\* ["\']([^"\']+)["\'] anchored at index q
QuotedAt(s, q) ==
    IF q > Len(s) \/ ~IsQuote(CharAt(s, q)) THEN NoMatch
    ELSE LET d == NonQuoteRunEnd(s, q + 1)
         IN  IF d >= q + 1 /\ d + 1 <= Len(s)
               THEN [ok |-> TRUE, text |-> Slice(s, q + 1, d), last |-> d + 1]
               ELSE NoMatch

\* <tag[^>]+src=["\']([^"\']+)["\'] with re.IGNORECASE, anchored at index i;
\* the greedy [^>]+ takes the longest run that still lets the rest match
TagSrcAt(s, i, tag) ==
    LET a == i + Len(tag) + 1
        lim == RunEndNot(s, a, ">")
        starts == {b \in (a + 1)..(lim - 3) :
                     /\ Lower(Slice(s, b, b + 3)) = "src="
                     /\ QuotedAt(s, b + 4).ok}
    IN  IF Lower(Slice(s, i, a - 1)) = "<" \o tag /\ starts # {}
          THEN QuotedAt(s, MaxOf(starts) + 4)
          ELSE NoMatch

\* text ends in \.(?:mp4|webm|ogg|mov|avi|m3u8) with at least `before`
\* characters in front of the dot
EndsInMediaExt(text, before) ==
    \E e \in MediaExts :
        /\ EndsWith(Lower(text), "." \o e)
        /\ Len(text) - Len(e) - 1 >= before

\* data-src=["\']([^"\']+\.(?:mp4|webm|ogg|mov|avi|m3u8))["\'] anchored at i
DataSrcAt(s, i) ==
    LET m == QuotedAt(s, i + 9)
    IN  IF Lower(Slice(s, i, i + 8)) = "data-src=" /\ m.ok /\ EndsInMediaExt(m.text, 1)
          THEN m ELSE NoMatch

\* ["\'](https?://[^"\']+\.(?:mp4|webm|ogg|mov|avi|m3u8))["\'] anchored at i
JsonVideoAt(s, i) ==
    LET m == QuotedAt(s, i)
        t == Lower(m.text)
    IN  IF m.ok /\ ( \/ StartsWith(t, "http://") /\ EndsInMediaExt(m.text, 8)
                     \/ StartsWith(t, "https://") /\ EndsInMediaExt(m.text, 9) )
          THEN m ELSE NoMatch

\* the four patterns, by tier
PatternAt(s, i, tier) ==
    CASE tier = 1 -> TagSrcAt(s, i, "video")
      [] tier = 2 -> TagSrcAt(s, i, "source")
      [] tier = 3 -> DataSrcAt(s, i)
      [] tier = 4 -> JsonVideoAt(s, i)

\* re.findall(pattern, html_content, re.IGNORECASE): the groups of the
\* non-overlapping matches, scanning left to right
RECURSIVE FindAllFrom(_, _, _)
FindAllFrom(s, i, tier) ==
    LET at == {j \in i..Len(s) : PatternAt(s, j, tier).ok}
    IN  IF at = {} THEN <<>>
        ELSE TheOne({<<m.text>> \o FindAllFrom(s, m.last + 1, tier) :
                        m \in {PatternAt(s, j, tier) : j \in {MinOf(at)}}})

FindAll(s, tier) == FindAllFrom(s, 1, tier)

\* the first index >= i at which sub occurs in s, 0 when there is none
IndexFrom(s, sub, i) ==
    LET at == {j \in i..(Len(s) - Len(sub) + 1) : Slice(s, j, j + Len(sub) - 1) = sub}
    IN  IF at = {} THEN 0 ELSE MinOf(at)

\* urllib.parse.urlparse(base_url), for scheme://netloc/path URLs:
\* the scheme, the netloc and the path
urlparse(u) ==
    LET c == IndexFrom(u, "://", 1)
        p == IndexFrom(u, "/", c + 3)
    IN  [scheme |-> Slice(u, 1, c - 1),
         netloc |-> IF p = 0 THEN Slice(u, c + 3, Len(u)) ELSE Slice(u, c + 3, p - 1),
         path   |-> IF p = 0 THEN "" ELSE Slice(u, p, Len(u))]

\* the index of the last "/" of s, 0 when there is none
LastSlash(s, i) ==
    LET at == {j \in 1..i : CharAt(s, j) = "/"}
    IN  IF at = {} THEN 0 ELSE MaxOf(at)

\* urllib.parse.urljoin(base_url, ref) for the references that reach it:
\* a reference with a scheme in another letter case (returned as it is
\* when the scheme differs from the base's, else with the scheme
\* lower-cased), or a plain relative path (no dot segments), which
\* replaces the last segment of the base path
urljoin(base, ref) ==
    LET b == urlparse(base)
        dir == Slice(b.path, 1, LastSlash(b.path, Len(b.path)))
        r == urlparse(ref)
    IN  IF IndexFrom(ref, "://", 1) > 0
          THEN IF Lower(r.scheme) # b.scheme THEN ref
               ELSE Lower(r.scheme) \o Slice(ref, Len(r.scheme) + 1, Len(ref))
          ELSE b.scheme \o "://" \o b.netloc \o (IF dir = "" THEN "/" ELSE dir) \o ref

\* the resolution of one match against the page URL
ResolveUrl(video_url, base_url) ==
    IF StartsWith(video_url, "http://") \/ StartsWith(video_url, "https://")
      THEN video_url
    ELSE IF StartsWith(video_url, "//") THEN "https:" \o video_url
    ELSE IF StartsWith(video_url, "/")
      THEN LET parsed_base == urlparse(base_url)
           IN  parsed_base.scheme \o "://" \o parsed_base.netloc \o video_url
    ELSE urljoin(base_url, video_url)

\* the "seen" loop: duplicates dropped, first occurrences kept in order
RECURSIVE Unique(_, _)
Unique(urls, seen) ==
    IF urls = <<>> THEN <<>>
    ELSE IF Head(urls) \in seen THEN Unique(Tail(urls), seen)
    ELSE <<Head(urls)>> \o Unique(Tail(urls), seen \cup {Head(urls)})

\* the resolution loop
ResolveEach(video_urls, base_url) ==
    [k \in 1..Len(video_urls) |-> ResolveUrl(video_urls[k], base_url)]

\* a scanner that drops the duplicates among the matches as written in
\* the page and resolves them afterwards
extract_video_src_from_html_DedupesRaw(html_content, base_url) ==
    TheOne({ ResolveEach(Unique(video_urls, {}), base_url) :
               video_urls \in { FindAll(html_content, 1) \o FindAll(html_content, 2)
                                \o FindAll(html_content, 3) \o FindAll(html_content, 4) } })

extract_video_src_from_html(html_content, base_url) ==
    TheOne({ Unique(resolved_urls, {}) :
               resolved_urls \in { ResolveEach(video_urls, base_url) :
                 video_urls \in { FindAll(html_content, 1) \o FindAll(html_content, 2)
                                  \o FindAll(html_content, 3) \o FindAll(html_content, 4) } } })

(***************************************************************************)
(* the title of the fetched page                                           *)
(***************************************************************************)

IsSpace(c) == c \in {" ", "\n", "\t", "\r"}

\* str.strip()
Strip(s) ==
    LET ink == {j \in 1..Len(s) : ~IsSpace(CharAt(s, j))}
    IN  IF ink = {} THEN "" ELSE Slice(s, MinOf(ink), MaxOf(ink))

\* <title[^>]*>([^<]+)</title> with re.IGNORECASE, anchored at index i
TitleAt(s, i) ==
    LET g == RunEndNot(s, i + 6, ">") + 1
        d == RunEndNot(s, g + 1, "<")
    IN  IF /\ Lower(Slice(s, i, i + 5)) = "<title"
           /\ g <= Len(s)
           /\ d >= g + 1
           /\ Lower(Slice(s, d + 1, d + 8)) = "</title>"
          THEN [ok |-> TRUE, text |-> Slice(s, g + 1, d), last |-> d + 8]
          ELSE NoMatch

\* title_match.group(1).strip() if title_match else 'Unknown'
HtmlTitle(html_content) ==
    LET at == {j \in 1..Len(html_content) : TitleAt(html_content, j).ok}
    IN  IF at = {} THEN "Unknown"
        ELSE Strip(TitleAt(html_content, MinOf(at)).text)

(***************************************************************************)
(* the choice among the formats yt-dlp reports                             *)
(***************************************************************************)

\* a sort key that ranks by bitrate before height
SortKey_BitrateFirst(f) ==
    <<OrZero(Get(f.tbr)), OrZero(Get(f.height)), OrZero(Get(f.filesize))>>

\* the sort key of a format
SortKey(f) == <<OrZero(Get(f.height)), OrZero(Get(f.tbr)), OrZero(Get(f.filesize))>>

\* Python's tuple comparison a < b
KeyLess(a, b) ==
    \/ a[1] < b[1]
    \/ a[1] = b[1] /\ a[2] < b[2]
    \/ a[1] = b[1] /\ a[2] = b[2] /\ a[3] < b[3]

\* list.sort(key=..., reverse=True): descending, equal keys keep their order
RECURSIVE SortDesc(_)
SortDesc(fs) ==
    IF fs = <<>> THEN <<>>
    ELSE LET i == MinOf({j \in 1..Len(fs) :
                           \A n \in 1..Len(fs) : ~KeyLess(SortKey(fs[j]), SortKey(fs[n]))})
         IN  <<fs[i]>> \o SortDesc(SubSeq(fs, 1, i - 1) \o SubSeq(fs, i + 1, Len(fs)))

IsVideoWithUrl(f) == Get(f.vcodec) # Val("none") /\ Truthy(Get(f.url))

HasUrl(f) == Truthy(Get(f.url))

\* a selection that falls back to the text of the first subtitle track
SelectFromInfo_ReadsSubtitles(info) ==
    IF info.formats # Absent /\ SelectSeq(info.formats.v, HasUrl) # <<>>
      THEN <<SelectSeq(info.formats.v, HasUrl)[1].url.v>>
    ELSE IF info.subtitles # Absent THEN <<info.subtitles.v[1].content>>
    ELSE <<>>

\* the video_urls the yt-dlp branch leaves, from the info dict
SelectFromInfo(info) ==
    IF info.formats = Absent THEN <<>>
    ELSE LET formats == info.formats.v
             video_formats == SelectSeq(formats, IsVideoWithUrl)
             with_url == SelectSeq(formats, HasUrl)
         IN  IF video_formats # <<>> THEN <<SortDesc(video_formats)[1].url.v>>
             ELSE IF with_url # <<>> THEN <<with_url[1].url.v>>
             ELSE <<>>

(***************************************************************************)
(* parse_vtt                                                               *)
(***************************************************************************)

\* s.split(sep) for a one-character separator
RECURSIVE Split(_, _)
Split(s, sep) ==
    LET i == IndexFrom(s, sep, 1)
    IN  IF i = 0 THEN <<s>>
        ELSE <<Slice(s, 1, i - 1)>> \o Split(Slice(s, i + 1, Len(s)), sep)

\* str.isdigit()
IsDigit(s) ==
    /\ s # ""
    /\ \A j \in 1..Len(s) : CharAt(s, j) \in {"0", "1", "2", "3", "4", "5", "6", "7", "8", "9"}

\* <[^>]+> anchored at index i
TagAt(s, i) ==
    LET d == RunEndNot(s, i + 1, ">")
    IN  CharAt(s, i) = "<" /\ d >= i + 1 /\ d + 1 <= Len(s)

\* re.sub(r'<[^>]+>', '', line)
RECURSIVE StripTags(_)
StripTags(s) ==
    LET at == {j \in 1..Len(s) : TagAt(s, j)}
    IN  IF at = {} THEN s
        ELSE LET i == MinOf(at)
                 d == RunEndNot(s, i + 1, ">")
             IN  Slice(s, 1, i - 1) \o StripTags(Slice(s, d + 2, Len(s)))

\* the loop body of parse_vtt on one line: the text parts it appends
VttLineParts(raw) ==
    LET line == Strip(raw)
    IN  IF line = "" \/ StartsWith(line, "WEBVTT") \/ Contains(line, "-->")
           \/ StartsWith(line, "<")
          THEN <<>>
        ELSE IF IsDigit(line) THEN <<>>
        ELSE <<StripTags(line)>>

\* ' '.join(parts)
RECURSIVE Join(_)
Join(parts) ==
    IF parts = <<>> THEN ""
    ELSE IF Len(parts) = 1 THEN parts[1]
    ELSE parts[1] \o " " \o Join(Tail(parts))

RECURSIVE VttParts(_)
VttParts(lines) ==
    IF lines = <<>> THEN <<>> ELSE VttLineParts(Head(lines)) \o VttParts(Tail(lines))

parse_vtt(vtt_content) == Join(VttParts(Split(vtt_content, "\n")))

(***************************************************************************)
(* The inputs of a request: what the page renderer, the network and        *)
(* yt-dlp may answer.                                                      *)
(***************************************************************************)

\* bounds of the enumerated inputs
MaxFragments == 2
MaxFormats == 2

\* str(request.url)
RequestUrl == "https://example.test/watch"

\* an exception: its class, str(e) and, for TranscriptionError, status_code
Exc(type, text, status_code) == [type |-> type, text |-> text, status_code |-> status_code]
NoExc == Exc("none", "", 0)

\* texts of failures: every rule of classify_error alone, in other letter
\* cases, and together with keywords of later rules
ErrorTexts ==
    { "HTTP Error 403: Forbidden",
      "FORBIDDEN by proxy after timeout",
      "HTTP Error 404: Not Found",
      "ERROR: This video does not exist (network said 401)",
      "HTTP Error 401: Unauthorized",
      "Sign in required: UNAUTHORIZED connection",
      "Timeout 30000ms exceeded.",
      "The request took too long on this connection",
      "Connection timed out",
      "ERROR: Network is unreachable; unable to download webpage",
      "ERROR: Unsupported URL: https://example.test/watch",
      "ERROR: No video formats found!",
      "ERROR: Unable to extract video data",
      "Unable to download JSON metadata: no video",
      "No video URL found for this page",
      "This page has no video",
      "HTTP Error 500: Internal Server Error",
      "xyz" }

\* what p.chromium.launch / browser.new_page raise when they fail
LaunchErrors == {"Executable doesn't exist at /ms-playwright/chromium/chrome"}

\* what page.goto raises besides the timeout
GotoErrors == {"net::ERR_CONNECTION_REFUSED at https://example.test/watch"}

\* what the page queries raise when the page has gone
PageErrors == {"Target page, context or browser has been closed"}

\* the text of the PlaywrightTimeoutError of page.goto(timeout=30000)
GotoTimeoutText == "Timeout 30000ms exceeded."

\* a <video> element as the page queries see it
VideoEl(src, currentSrc, sources) ==
    [src |-> src, currentSrc |-> currentSrc, sources |-> sources]

\* rendered pages: page.title(), the video elements, page.content() and
\* the list the page-side script returns
RenderedPages ==
    { [title |-> "", videos |-> <<>>, content |-> "<p>no media here</p>", js |-> <<>>],
      [title |-> "Live", videos |-> <<>>,
       content |-> "<title>Live</title><p>later</p>", js |-> <<>>],
      [title |-> "Clip",
       videos |-> <<VideoEl(Val("a.mp4"), "https://example.test/a.mp4", <<>>)>>,
       content |-> "<title>Clip</title><video src=\"a.mp4\"></video>",
       js |-> <<"https://example.test/a.mp4", "https://example.test/a.mp4">>],
      [title |-> "",
       videos |-> <<VideoEl(None, "", <<"//cdn.test/v.mp4", "">>)>>,
       content |-> "<video controls><source src=\"//cdn.test/v.mp4\"></video>",
       js |-> <<>>],
      [title |-> "Player", videos |-> <<>>,
       content |-> "<div data-video-url=\"/m/b.webm\"></div>",
       js |-> <<"/m/b.webm">>] }

\* pieces of fetched HTML
HtmlFragments ==
    { "",
      "<title> Clip </title>",
      "<p>no media here</p>",
      "<video src=\"a.mp4\"></video>",
      "<video controls><source src='//cdn.test/v.mp4'></video>",
      "<div data-src=\"/m/b.webm\"></div>",
      "<script>var u = \"https://cdn.test/v.mp4\";</script>" }

\* the documents of at most n fragments
RECURSIVE DocsUpTo(_)
DocsUpTo(n) ==
    IF n = 0 THEN {""} ELSE {d \o f : d \in DocsUpTo(n - 1), f \in HtmlFragments}

HtmlDocs == DocsUpTo(MaxFragments)

\* a format dict of yt-dlp
Format(vcodec, url, height, tbr, filesize) ==
    [vcodec |-> vcodec, url |-> url, height |-> height, tbr |-> tbr, filesize |-> filesize]

FormatSet ==
    { Format(Val("none"), Val("https://cdn.test/audio.m4a"), None, Val(128), Absent),
      Format(Val("avc1"), Val("https://cdn.test/480.mp4"), Val(480), Val(900), Absent),
      Format(Val("avc1"), Val("https://cdn.test/1080.mp4"), Val(1080), Absent, Val(5)),
      Format(Absent, Val("https://cdn.test/hls.m3u8"), Absent, None, None),
      Format(Val("vp9"), None, Val(2160), Val(9000), Val(9)),
      Format(Val("avc1"), Val("https://cdn.test/480hi.mp4"), Val(480), Val(1500), None),
      Format(Val("vp9"), Val("https://cdn.test/480.webm"), Val(480), Val(900), Val(0)) }

\* the lists of at most n formats
RECURSIVE FormatLists(_)
FormatLists(n) ==
    IF n = 0 THEN {<<>>}
    ELSE FormatLists(n - 1) \cup {Append(l, f) : l \in FormatLists(n - 1), f \in FormatSet}

\* the text of the one subtitle track of the inputs
VttSample == "WEBVTT\n\n1\n00:00:01.000 --> 00:00:02.000\nHello <b>world</b>\n"

\* a subtitle track yt-dlp reports: language, format and the track's text
Track(lang, ext, content) == [lang |-> lang, ext |-> ext, content |-> content]

\* the info dicts ydl.extract_info returns
Infos ==
    [ title : {Absent, None, Val("Big Buck Bunny")},
      formats : {Absent} \cup {Val(l) : l \in FormatLists(MaxFormats)},
      subtitles : {Absent, Val(<<Track("en", "vtt", VttSample)>>)} ]

NoInfo == [title |-> Absent, formats |-> Absent, subtitles |-> Absent]

(***************************************************************************)
(* The state of one POST /transcribe request                               *)
(***************************************************************************)

VARIABLES
    pc,              \* where the request is in transcribe_video and its callees
    playwright,      \* the sync_playwright() context: "none", "running", "stopped"
    browser,         \* the launched browser: "none", "open", "closed"
    exc,             \* the exception in flight
    playwright_error,\* the exception extract_video_url caught from the render
    title,           \* the local title
    video_urls,      \* the local video_urls / unique_urls
    info,            \* what ydl.extract_info returned
    started,         \* the stages begun, in order
    outcome,         \* per stage: "none", "ok", "empty" (no URL), "raised"
    stage_error,     \* per stage: str() of what it raised
    classify_calls,  \* the arguments of the calls of classify_error, in order
    result,          \* what extract_video_url returned or raised
    response,        \* what the handler answers
    call             \* the last direct call of a helper: the function, its
                     \* arguments and what it returned

\* the variables of the request
request_vars == <<pc, playwright, browser, exc, playwright_error, title, video_urls, info,
                  started, outcome, stage_error, classify_calls, result, response>>

vars == <<request_vars, call>>

\* no helper has been called directly
NoCall == [function |-> "none"]

Stages == <<"render", "raw_fetch", "metadata">>
StageSet == {"render", "raw_fetch", "metadata"}

NoResult == [kind |-> "none", title |-> None, video_url |-> "",
             status_code |-> 0, message |-> "", original_error |-> ""]

\* return {'title': ..., 'video_url': ..., 'success': True}
Return(t, u) == [kind |-> "return", title |-> t, video_url |-> u,
                 status_code |-> 0, message |-> "", original_error |-> ""]

\* raise TranscriptionError(status_code, message, original_error)
Raise(c, m, o) == [kind |-> "raise", title |-> None, video_url |-> "",
                   status_code |-> c, message |-> m, original_error |-> o]

NoResponse == [status |-> 0, url |-> "", title |-> "", video_url |-> "",
               success |-> FALSE, detail |-> ""]

\* TranscriptionResponse(url=..., title=..., video_url=..., success=True)
Ok200(t, u) == [status |-> 200, url |-> RequestUrl, title |-> t, video_url |-> u,
                success |-> TRUE, detail |-> ""]

\* HTTPException(status_code=..., detail=...)
HttpError(c, d) == [status |-> c, url |-> "", title |-> "", video_url |-> "",
                    success |-> FALSE, detail |-> d]

Init ==
    /\ pc = "idle"
    /\ playwright = "none"
    /\ browser = "none"
    /\ exc = NoExc
    /\ playwright_error = NoExc
    /\ title = None
    /\ video_urls = <<>>
    /\ info = NoInfo
    /\ started = <<>>
    /\ outcome = [st \in StageSet |-> "none"]
    /\ stage_error = [st \in StageSet |-> ""]
    /\ classify_calls = <<>>
    /\ result = NoResult
    /\ response = NoResponse
    /\ call = NoCall

(***************************************************************************)
(* extract_video_url_with_playwright                                       *)
(***************************************************************************)

\* append x unless it is falsy or (when dedup) already in the list
AppendIf(l, x, dedup) ==
    IF x = "" \/ (dedup /\ \E j \in 1..Len(l) : l[j] = x) THEN l ELSE Append(l, x)

RECURSIVE AppendSources(_, _)
AppendSources(l, sources) ==
    IF sources = <<>> THEN l
    ELSE AppendSources(AppendIf(l, Head(sources), TRUE), Tail(sources))

\* the loop over the video elements
RECURSIVE ElementUrls(_, _)
ElementUrls(l, videos) ==
    IF videos = <<>> THEN l
    ELSE LET v == Head(videos)
             l1 == IF Truthy(v.src) THEN Append(l, v.src.v) ELSE l
             l2 == AppendIf(l1, v.currentSrc, TRUE)
         IN  ElementUrls(AppendSources(l2, v.sources), Tail(videos))

\* the video_urls collected from a rendered page
CollectUrls(page, url) ==
    ElementUrls(<<>>, page.videos)
        \o extract_video_src_from_html(page.content, url)
        \o page.js

\* the resolution loop of the render, which skips falsy entries
ResolveAll(urls, url) == ResolveEach(SelectSeq(urls, LAMBDA u : u # ""), url)

\* transcribe_video calls extract_video_url, which calls
\* extract_video_url_with_playwright, which enters `with sync_playwright()`
Receive ==
    /\ pc = "idle"
    /\ pc' = "launch"
    /\ playwright' = "running"
    /\ started' = Append(started, "render")
    /\ UNCHANGED <<browser, exc, playwright_error, title, video_urls, info,
                   outcome, stage_error, classify_calls, result, response>>
    /\ UNCHANGED call

\* browser = p.chromium.launch(headless=True); page = browser.new_page():
\* both succeed, the launch fails, or new_page fails with the browser open
Launch ==
    /\ pc = "launch"
    /\ \/ /\ browser' = "open"
          /\ pc' = "goto"
          /\ exc' = exc
       \/ \E text \in LaunchErrors :
          /\ exc' = Exc("Exception", text, 0)
          /\ pc' = "pw_exit"
          /\ browser' = browser
       \/ \E text \in PageErrors :
          /\ browser' = "open"
          /\ exc' = Exc("Exception", text, 0)
          /\ pc' = "pw_exit"
    /\ UNCHANGED <<playwright, playwright_error, title, video_urls, info,
                   started, outcome, stage_error, classify_calls, result, response>>
    /\ UNCHANGED call

\* page.goto(url, wait_until='networkidle', timeout=30000);
\* page.wait_for_timeout(2000)
Goto ==
    /\ pc = "goto"
    /\ \/ /\ pc' = "collect"
          /\ exc' = exc
       \/ /\ exc' = Exc("PlaywrightTimeoutError", GotoTimeoutText, 0)
          /\ pc' = "pw_exit"
       \/ \E text \in GotoErrors :
          /\ exc' = Exc("Exception", text, 0)
          /\ pc' = "pw_exit"
    /\ UNCHANGED <<playwright, browser, playwright_error, title, video_urls, info,
                   started, outcome, stage_error, classify_calls, result, response>>
    /\ UNCHANGED call

\* the title and the video URLs of the rendered page
Collect ==
    /\ pc = "collect"
    /\ \/ \E page \in RenderedPages :
          /\ title' = Val(IF page.title # "" THEN page.title ELSE "Unknown")
          /\ video_urls' = CollectUrls(page, RequestUrl)
          /\ pc' = "close"
          /\ exc' = exc
       \/ \E text \in PageErrors :
          /\ exc' = Exc("Exception", text, 0)
          /\ pc' = "pw_exit"
          /\ UNCHANGED <<title, video_urls>>
    /\ UNCHANGED <<playwright, browser, playwright_error, info,
                   started, outcome, stage_error, classify_calls, result, response>>
    /\ UNCHANGED call

\* browser.close()
BrowserClose ==
    /\ pc = "close"
    /\ browser' = "closed"
    /\ pc' = "resolve"
    /\ UNCHANGED <<playwright, exc, playwright_error, title, video_urls, info,
                   started, outcome, stage_error, classify_calls, result, response>>
    /\ UNCHANGED call

\* resolve, de-duplicate, and return the first URL or raise
RenderResolve ==
    /\ pc = "resolve"
    /\ \E unique_urls \in {Unique(kept, {}) : kept \in {ResolveAll(video_urls, RequestUrl)}} :
           /\ video_urls' = unique_urls
           /\ IF unique_urls = <<>>
                THEN /\ exc' = Exc("Exception", "No video source URL found in rendered page", 0)
                     /\ result' = result
                ELSE /\ exc' = exc
                     /\ result' = Return(title, unique_urls[1])
    /\ pc' = "pw_exit"
    /\ UNCHANGED <<playwright, browser, playwright_error, title, info,
                   started, outcome, stage_error, classify_calls, response>>
    /\ UNCHANGED call

\* a context exit that leaves the browser as it is
BrowserAfterStop_Leaks(b) == b

\* what leaving `with sync_playwright() as p` does to the browser: stopping
\* Playwright ends the driver, and with it every browser it launched
BrowserAfterStop(b) == IF b = "open" THEN "closed" ELSE b

\* the end of the `with sync_playwright()` block, by return or by exception
PlaywrightExit ==
    /\ pc = "pw_exit"
    /\ playwright' = "stopped"
    /\ browser' = BrowserAfterStop(browser)
    /\ pc' = IF exc = NoExc THEN "render_return" ELSE "render_except"
    /\ UNCHANGED <<exc, playwright_error, title, video_urls, info,
                   started, outcome, stage_error, classify_calls, result, response>>
    /\ UNCHANGED call

\* a render whose result is not returned: the cascade goes on
RenderReturn_FallsThrough ==
    /\ pc = "render_return"
    /\ outcome' = [outcome EXCEPT !["render"] = "ok"]
    /\ pc' = "fetch"
    /\ UNCHANGED <<playwright, browser, exc, playwright_error, title, video_urls, info,
                   started, stage_error, classify_calls, result, response>>
    /\ UNCHANGED call

\* the render returned: extract_video_url returns its result
RenderReturn ==
    /\ pc = "render_return"
    /\ outcome' = [outcome EXCEPT !["render"] = "ok"]
    /\ pc' = "respond"
    /\ UNCHANGED <<playwright, browser, exc, playwright_error, title, video_urls, info,
                   started, stage_error, classify_calls, result, response>>
    /\ UNCHANGED call

\* what the except clauses of the render raise for the exception e
RenderRaises(e) ==
    IF e.type = "PlaywrightTimeoutError"
      THEN Exc("TranscriptionError", MsgTimeout, 408)
      ELSE e

\* a failed render that is tried again
RenderExcept_Retries ==
    /\ pc = "render_except"
    /\ playwright_error' = RenderRaises(exc)
    /\ stage_error' = [stage_error EXCEPT !["render"] = RenderRaises(exc).text]
    /\ outcome' = [outcome EXCEPT !["render"] = "raised"]
    /\ exc' = NoExc
    /\ title' = None
    /\ video_urls' = <<>>
    /\ pc' = "launch"
    /\ playwright' = "running"
    /\ started' = Append(started, "render")
    /\ UNCHANGED <<browser, info, classify_calls, result, response>>
    /\ UNCHANGED call

\* the except clauses of the render, and `except Exception as
\* playwright_error` of extract_video_url, which logs and goes on
RenderExcept ==
    /\ pc = "render_except"
    /\ playwright_error' = RenderRaises(exc)
    /\ stage_error' = [stage_error EXCEPT !["render"] = RenderRaises(exc).text]
    /\ outcome' = [outcome EXCEPT !["render"] =
                      IF exc.text = "No video source URL found in rendered page"
                        THEN "empty" ELSE "raised"]
    /\ exc' = NoExc
    /\ title' = None
    /\ video_urls' = <<>>
    /\ pc' = "fetch"
    /\ UNCHANGED <<playwright, browser, info, started, classify_calls, result, response>>
    /\ UNCHANGED call

(***************************************************************************)
(* extract_video_url after the render                                      *)
(***************************************************************************)

\* what urllib.request.urlopen(req, timeout=30) and response.read() raise
FetchErrors ==
    {Exc("HTTPError", t, 0) : t \in {e \in ErrorTexts : StartsWith(e, "HTTP Error ")}}
    \cup {Exc("URLError", "<urlopen error " \o t \o ">", 0) :
            t \in {"timed out", "[Errno 111] Connection refused"}}
    \cup {Exc("Exception", t, 0) : t \in {e \in ErrorTexts : ~StartsWith(e, "HTTP Error ")}}

\* what ydl.extract_info raises
YdlErrors == {Exc("DownloadError", t, 0) : t \in ErrorTexts}

\* Fallback 1: the Request with its User-Agent header is built
Fetch ==
    /\ pc = "fetch"
    /\ started' = Append(started, "raw_fetch")
    /\ pc' = "urlopen"
    /\ UNCHANGED <<playwright, browser, exc, playwright_error, title, video_urls, info,
                   outcome, stage_error, classify_calls, result, response>>
    /\ UNCHANGED call

\* a raw fetch whose exception is swallowed, yt-dlp being tried next
Urlopen_RaiseFallsThrough ==
    /\ pc = "urlopen"
    /\ \/ \E html_content \in HtmlDocs :
          /\ title' = Val(HtmlTitle(html_content))
          /\ video_urls' = extract_video_src_from_html(html_content, RequestUrl)
          /\ outcome' = [outcome EXCEPT !["raw_fetch"] =
                            IF video_urls' = <<>> THEN "empty" ELSE "ok"]
          /\ pc' = "after_scan"
          /\ UNCHANGED <<exc, stage_error>>
       \/ \E e \in FetchErrors :
          /\ stage_error' = [stage_error EXCEPT !["raw_fetch"] = e.text]
          /\ outcome' = [outcome EXCEPT !["raw_fetch"] = "raised"]
          /\ pc' = "ydl"
          /\ UNCHANGED <<exc, title, video_urls>>
    /\ UNCHANGED <<playwright, browser, playwright_error, info, started,
                   classify_calls, result, response>>
    /\ UNCHANGED call

\* urlopen and read, then the title and the scan of the HTML
Urlopen ==
    /\ pc = "urlopen"
    /\ \/ \E html_content \in HtmlDocs :
          /\ title' = Val(HtmlTitle(html_content))
          /\ video_urls' = extract_video_src_from_html(html_content, RequestUrl)
          /\ outcome' = [outcome EXCEPT !["raw_fetch"] =
                            IF video_urls' = <<>> THEN "empty" ELSE "ok"]
          /\ pc' = "after_scan"
          /\ UNCHANGED <<exc, stage_error>>
       \/ \E e \in FetchErrors :
          /\ exc' = e
          /\ stage_error' = [stage_error EXCEPT !["raw_fetch"] = e.text]
          /\ outcome' = [outcome EXCEPT !["raw_fetch"] = "raised"]
          /\ pc' = "except"
          /\ UNCHANGED <<title, video_urls>>
    /\ UNCHANGED <<playwright, browser, playwright_error, info, started,
                   classify_calls, result, response>>
    /\ UNCHANGED call

\* yt-dlp tried whatever the scan found
NeedsYdl_Always(urls) == TRUE

\* `if not video_urls:` in front of Fallback 2
NeedsYdl(urls) == urls = <<>>

\* the test that decides whether yt-dlp is tried
AfterScan ==
    /\ pc = "after_scan"
    /\ pc' = IF NeedsYdl(video_urls) THEN "ydl" ELSE "finish"
    /\ UNCHANGED <<playwright, browser, exc, playwright_error, title, video_urls, info,
                   started, outcome, stage_error, classify_calls, result, response>>
    /\ UNCHANGED call

\* Fallback 2: the options and the YoutubeDL object
Ydl ==
    /\ pc = "ydl"
    /\ started' = Append(started, "metadata")
    /\ pc' = "extract_info"
    /\ UNCHANGED <<playwright, browser, exc, playwright_error, title, video_urls, info,
                   outcome, stage_error, classify_calls, result, response>>
    /\ UNCHANGED call

\* ydl.extract_info and the choice among info['formats']
ExtractInfo ==
    /\ pc = "extract_info"
    /\ \/ \E i \in Infos :
          /\ info' = i
          /\ title' = GetOr(i.title, title)
          /\ video_urls' = SelectFromInfo(i)
          /\ outcome' = [outcome EXCEPT !["metadata"] =
                            IF video_urls' = <<>> THEN "empty" ELSE "ok"]
          /\ pc' = "finish"
          /\ UNCHANGED <<exc, stage_error>>
       \/ \E e \in YdlErrors :
          /\ exc' = e
          /\ stage_error' = [stage_error EXCEPT !["metadata"] = e.text]
          /\ outcome' = [outcome EXCEPT !["metadata"] = "raised"]
          /\ pc' = "except"
          /\ UNCHANGED <<title, video_urls, info>>
    /\ UNCHANGED <<playwright, browser, playwright_error, started,
                   classify_calls, result, response>>
    /\ UNCHANGED call

\* the text of the exception raised when no stage left a URL
NoSourceText == "No video source URL found in page"

\* `if not video_urls: raise`, else the return of the first URL
Finish ==
    /\ pc = "finish"
    /\ IF video_urls = <<>>
         THEN /\ exc' = Exc("Exception", NoSourceText, 0)
              /\ stage_error' = [stage_error EXCEPT ![started[Len(started)]] = NoSourceText]
              /\ pc' = "except"
              /\ result' = result
         ELSE /\ result' = Return(title, video_urls[1])
              /\ pc' = "respond"
              /\ UNCHANGED <<exc, stage_error>>
    /\ UNCHANGED <<playwright, browser, playwright_error, title, video_urls, info,
                   started, outcome, classify_calls, response>>
    /\ UNCHANGED call

\* error_msg of the except clause that catches e
ErrorMsg(e) ==
    IF e.type = "URLError" THEN "URL Error: " \o e.text ELSE e.text

\* except clauses that classify the first failure of the request
Except_FirstFailure ==
    /\ pc = "except"
    /\ LET c == classify_error(playwright_error.text)
       IN  result' = Raise(c[1], c[2], ErrorMsg(exc))
    /\ classify_calls' = Append(classify_calls, playwright_error.text)
    /\ exc' = NoExc
    /\ pc' = "respond"
    /\ UNCHANGED <<playwright, browser, playwright_error, title, video_urls, info,
                   started, outcome, stage_error, response>>
    /\ UNCHANGED call

\* except HTTPError / URLError / Exception: classify and raise
\* TranscriptionError(status_code, message, error_msg)
Except ==
    /\ pc = "except"
    /\ LET c == classify_error(exc.text)
       IN  result' = Raise(c[1], c[2], ErrorMsg(exc))
    /\ classify_calls' = Append(classify_calls, exc.text)
    /\ exc' = NoExc
    /\ pc' = "respond"
    /\ UNCHANGED <<playwright, browser, playwright_error, title, video_urls, info,
                   started, outcome, stage_error, response>>
    /\ UNCHANGED call

\* str() of the pydantic error for a title that is no str
ValidationText ==
    "1 validation error for TranscriptionResponse\ntitle\n  Input should be a valid string"

\* a handler without its `except Exception` clause: the validation error
\* leaves it, and the framework answers its plain 500
Respond_OnlyTranscriptionError ==
    /\ pc = "respond"
    /\ IF result.kind = "raise"
         THEN response' = HttpError(result.status_code, result.message)
         ELSE IF result.title.k = "val"
           THEN response' = Ok200(result.title.v, result.video_url)
           ELSE response' = HttpError(500, "Internal Server Error")
    /\ pc' = "done"
    /\ UNCHANGED <<playwright, browser, exc, playwright_error, title, video_urls, info,
                   started, outcome, stage_error, classify_calls, result>>
    /\ UNCHANGED call

\* transcribe_video: the response model, `except TranscriptionError` and
\* `except Exception`
Respond ==
    /\ pc = "respond"
    /\ IF result.kind = "raise"
         THEN /\ response' = HttpError(result.status_code, result.message)
              /\ classify_calls' = classify_calls
         ELSE IF result.title.k = "val"
           THEN /\ response' = Ok200(result.title.v, result.video_url)
                /\ classify_calls' = classify_calls
           ELSE LET c == classify_error(ValidationText)
                IN  /\ response' = HttpError(c[1], c[2])
                    /\ classify_calls' = Append(classify_calls, ValidationText)
    /\ pc' = "done"
    /\ UNCHANGED <<playwright, browser, exc, playwright_error, title, video_urls, info,
                   started, outcome, stage_error, result>>
    /\ UNCHANGED call

Next ==
    \/ Receive
    \/ Launch
    \/ Goto
    \/ Collect
    \/ BrowserClose
    \/ RenderResolve
    \/ PlaywrightExit
    \/ RenderReturn
    \/ RenderExcept
    \/ Fetch
    \/ Urlopen
    \/ AfterScan
    \/ Ydl
    \/ ExtractInfo
    \/ Finish
    \/ Except
    \/ Respond

Spec == Init /\ [][Next]_vars

(***************************************************************************)
(* Direct calls of the helpers extract_video_src_from_html and parse_vtt   *)
(***************************************************************************)

\* bound of the enumerated VTT texts
MaxVttLines == 3

\* page URLs the scanner resolves against
BaseUrls == {RequestUrl, "http://x.test/p/q"}

\* lines of a VTT text: the header, an empty line, a cue number, a cue
\* timing, and payload lines with markup inside, with spaces around, and
\* with a voice tag in front
VttLines ==
    { "WEBVTT",
      "",
      "1",
      "00:00:01.000 --> 00:00:02.000",
      "Hello <b>world</b>",
      "  and more ",
      "<v Roger>Hi there" }

\* the texts of at most n lines, each line but the last ended by "\n"
RECURSIVE VttTexts(_)
VttTexts(n) ==
    IF n = 0 THEN {""}
    ELSE VttTexts(n - 1) \cup {l \o "\n" \o t : l \in VttLines, t \in VttTexts(n - 1)}

\* extract_video_src_from_html(html_content, base_url), called once
ScanHtml ==
    /\ call = NoCall
    /\ \E html_content \in HtmlDocs, base_url \in BaseUrls :
          call' = [function |-> "extract_video_src_from_html",
                   html_content |-> html_content,
                   base_url |-> base_url,
                   returned |-> extract_video_src_from_html(html_content, base_url)]
    /\ UNCHANGED request_vars

\* parse_vtt(vtt_content), called once
ParseVtt ==
    /\ call = NoCall
    /\ \E vtt_content \in VttTexts(MaxVttLines) :
          call' = [function |-> "parse_vtt",
                   vtt_content |-> vtt_content,
                   returned |-> parse_vtt(vtt_content)]
    /\ UNCHANGED request_vars

CallNext ==
    \/ ScanHtml
    \/ ParseVtt

CallSpec == Init /\ [][CallNext]_vars

(***************************************************************************)
(* Properties                                                              *)
(***************************************************************************)

Last(seq) == seq[Len(seq)]

\* the request has been answered
Done == pc = "done"

\* the request has been answered with an HTTP error
Failed == Done /\ response.status # 200

\* the stage ended without a usable result
StageFailed(st) == outcome[st] \in {"raised", "empty"}

\* the number of times the stage was started
Starts(st) == Cardinality({i \in 1..Len(started) : started[i] = st})

\* C1: a request ends in failure only after all three stages (render, raw
\* fetch, metadata extractor) were attempted: a stage that raises or finds
\* nothing is followed by the next stage.
C1_FailureOnlyAfterAllStages ==
    Failed => started = Stages

\* C2: when the render raised and the raw fetch found a candidate URL, the
\* answer is a 200 with the title and the first candidate of the raw fetch,
\* and neither the status code nor the message of the render's failure is
\* in it.
C2_RawFetchResultReplacesRenderFailure ==
    (Done /\ playwright_error # NoExc /\ outcome["raw_fetch"] = "ok") =>
        /\ response.status = 200
        /\ response.success
        /\ outcome["metadata"] = "none"
        /\ response.title = title.v
        /\ response.video_url = video_urls[1]
        /\ response.url = RequestUrl
        /\ response.detail = ""
        /\ response.status # playwright_error.status_code
        /\ ~Contains(response.title, playwright_error.text)
        /\ ~Contains(response.video_url, playwright_error.text)

\* C2 witness: the page load timed out (the 408 TranscriptionError), the raw
\* fetch found a URL, and the request was answered with a 200.
C2_Witness ==
    /\ Done
    /\ playwright_error = Exc("TranscriptionError", MsgTimeout, 408)
    /\ outcome["raw_fetch"] = "ok"
    /\ response.status = 200
    /\ response.title = "Clip"

\* C3: when all three stages failed, classify_error was called exactly once
\* in the request, with the failure of the metadata-extractor stage.
C3_ClassifierSeesLastFailureOnce ==
    (Done /\ \A st \in StageSet : StageFailed(st)) =>
        /\ Len(classify_calls) = 1
        /\ classify_calls[1] = stage_error["metadata"]

\* C3 witness: three stages failed with three different failures, and the
\* request was answered.
C3_Witness ==
    /\ Done
    /\ \A st \in StageSet : StageFailed(st)
    /\ outcome["metadata"] = "raised"
    /\ stage_error["render"] # stage_error["metadata"]
    /\ stage_error["metadata"] = "HTTP Error 404: Not Found"
    /\ response.status = 404

\* C4: the stages start in the order render, raw fetch, metadata extractor;
\* every stage but the one started last has ended without a usable result
\* (so no two run at once), and a stage that produced a usable result is the
\* last one started.
C4_StagesSequentialInOrder ==
    /\ \E n \in 0..Len(Stages) : started = SubSeq(Stages, 1, n)
    /\ \A i \in 1..(Len(started) - 1) : StageFailed(started[i])
    /\ \A st \in StageSet :
         outcome[st] # "none" => \E i \in 1..Len(started) : started[i] = st
    /\ \A st \in StageSet :
         outcome[st] = "ok" => started # <<>> /\ Last(started) = st

\* C4 witness: the metadata extractor is running after the render and the
\* raw fetch have both failed.
C4_Witness ==
    /\ started = Stages
    /\ outcome["metadata"] = "none"
    /\ StageFailed("render")
    /\ StageFailed("raw_fetch")

\* the positions inside extract_video_url_with_playwright up to the end of
\* its `with` block
InsideRender == {"idle", "launch", "goto", "collect", "close", "resolve", "pw_exit"}

RuleKeywords ==
    << {"403", "forbidden"},
       {"404", "not found", "does not exist"},
       {"401", "unauthorized"},
       {"timeout", "took too long"},
       {"connection", "network"},
       {"unsupported url", "no video formats found", "unable to extract",
        "unable to download"},
       {"no video url found", "no video"} >>

RuleStatus == <<403, 404, 401, 408, 503, 400, 400>>

SmallLetters == "abcdefghijklmnopqrstuvwxyz"
CapitalLetters == "ABCDEFGHIJKLMNOPQRSTUVWXYZ"

\* the small letter of each capital letter
SmallOf ==
    [c \in {SubSeq(CapitalLetters, n, n) : n \in 1..Len(CapitalLetters)} |->
        SubSeq(SmallLetters,
               CHOOSE n \in 1..Len(CapitalLetters) : SubSeq(CapitalLetters, n, n) = c,
               CHOOSE n \in 1..Len(CapitalLetters) : SubSeq(CapitalLetters, n, n) = c)]

\* the character c is the small letter (or other character) k, in whatever case
SameIgnoringCase(c, k) == c = k \/ (c \in DOMAIN SmallOf /\ SmallOf[c] = k)

\* the keyword (in small letters) occurs in the text, letter case ignored
OccursIgnoringCase(text, keyword) ==
    \E i \in 1..(Len(text) - Len(keyword) + 1) :
        \A j \in 1..Len(keyword) :
            SameIgnoringCase(SubSeq(text, i + j - 1, i + j - 1), SubSeq(keyword, j, j))

RuleMatches(r, text) == \E k \in RuleKeywords[r] : OccursIgnoringCase(text, k)

\* the number of the first rule that matches, 8 (the default) when none does
FirstRule(text) ==
    LET matching == {r \in 1..Len(RuleKeywords) : RuleMatches(r, text)}
    IN  IF matching = {} THEN Len(RuleKeywords) + 1 ELSE MinOf(matching)

\* the status of the first rule that matches, 500 when none does
TableStatus(text) ==
    IF FirstRule(text) > Len(RuleStatus) THEN 500 ELSE RuleStatus[FirstRule(text)]

\* C6: the status classify_error gives a failure text is the status of the
\* first rule of the table that matches it, letter case ignored, whatever
\* keywords of later rules the text also has; 500 when no rule matches.
C6_FirstMatchingRuleWins ==
    Failed => response.status = TableStatus(Last(classify_calls))

\* C6 witness: a text in capitals that matches the first rule and also has
\* the keyword of the timeout rule was classified 403.
C6_Witness ==
    /\ Failed
    /\ Last(classify_calls) = "FORBIDDEN by proxy after timeout"
    /\ response.status = 403

\* C7: a failure whose text is "Connection timed out" is answered 408.
C7_ConnectionTimedOutIs408 ==
    (Failed /\ Last(classify_calls) = "Connection timed out") => response.status = 408

\* the fixed message of each rule, by rule number
CanonicalDetail ==
    <<MsgForbidden, MsgNotFound, MsgUnauthorized, MsgTimeout, MsgUnavailable,
      MsgBadRequest, MsgNoVideo>>

\* C8: the detail of an error answer whose status is not 500 is the fixed
\* message of the rule that matched, the same for every raw text of that
\* class; the detail of a 500 is the fixed prefix followed by the raw text.
C8_DetailIsCanonicalUnless500 ==
    Failed =>
        IF response.status # 500
          THEN response.detail = CanonicalDetail[FirstRule(Last(classify_calls))]
          ELSE response.detail = MsgInternalPrefix \o Last(classify_calls)

\* C8 witness: a failure whose raw text carries the request URL was answered
\* 400 with the fixed message, which has no URL in it.
C8_Witness ==
    /\ Failed
    /\ Last(classify_calls) = "ERROR: Unsupported URL: https://example.test/watch"
    /\ response.status = 400
    /\ response.detail = MsgBadRequest
    /\ ~Contains(response.detail, "example.test")

\* the request of the end-to-end scenario: the page load timed out, the raw
\* fetch returned HTML without a candidate, and yt-dlp reported one English
\* VTT subtitle track
SubtitleScenario ==
    /\ Done
    /\ playwright_error = Exc("TranscriptionError", MsgTimeout, 408)
    /\ outcome["raw_fetch"] = "empty"
    /\ outcome["metadata"] \in {"ok", "empty"}
    /\ info.subtitles = Val(<<Track("en", "vtt", VttSample)>>)

\* C9 as stated: in the scenario the answer is a 200 whose payload is the
\* VTT-decoded text of the track.
C9_ScenarioAnswersTranscription ==
    SubtitleScenario =>
        /\ response.status = 200
        /\ response.video_url = parse_vtt(info.subtitles.v[1].content)

\* the source URLs of the formats the info dict reports
ReportedUrls(i) ==
    IF i.formats = Absent THEN {}
    ELSE {i.formats.v[n].url.v : n \in {m \in 1..Len(i.formats.v) :
                                          i.formats.v[m].url.k = "val"}}

\* C9 amended: in the scenario the subtitle track is not read: without a
\* format that has a source URL the answer is the 400 "No video URL
\* available"; with one it is a 200 whose video_url is a reported source
\* URL, or a 500 when the reported title is null.
C9_ScenarioAnswersFromFormats ==
    SubtitleScenario =>
        IF ReportedUrls(info) = {}
          THEN response.status = 400 /\ response.detail = MsgNoVideo
        ELSE IF info.title = None
          THEN response.status = 500
        ELSE /\ response.status = 200
             /\ response.video_url \in ReportedUrls(info)
             /\ response.video_url # parse_vtt(info.subtitles.v[1].content)

\* C9 witness: the scenario with no format at all, answered 400.
C9_Witness ==
    /\ SubtitleScenario
    /\ info.formats = Absent
    /\ response.status = 400
    /\ parse_vtt(info.subtitles.v[1].content) = "Hello world"

\* C10: no stage is started more than once in a request.
C10_EachStageAtMostOnce ==
    \A st \in StageSet : Starts(st) <= 1

\* C10 witness: all three stages failed, each after one start.
C10_Witness ==
    /\ Done
    /\ \A st \in StageSet : StageFailed(st) /\ Starts(st) = 1
    /\ stage_error["render"] = "net::ERR_CONNECTION_REFUSED at https://example.test/watch"

\* a stage of the request produced a usable result
SomeStageSucceeded == \E st \in StageSet : outcome[st] = "ok"

\* C11: when a stage succeeded, the request is answered with a success:
\* success = true, the extracted URL, and a title that is a str (a title
\* found for the page or "Unknown"); the title of the result that
\* extract_video_url returns is never missing or null.
C11_SuccessHasTitle ==
    /\ result.kind = "return" => result.title.k = "val" /\ result.video_url # ""
    /\ (Done /\ SomeStageSucceeded) =>
          /\ response.status = 200
          /\ response.success
          /\ response.video_url = result.video_url
          /\ response.title = result.title.v

\* a component of the ranking key: zero when the entry is missing or null
KeyComponent(x) == IF x.k = "val" THEN x.v ELSE 0

\* the ranking key (height, bitrate, file size) of a format
RankKey(f) == <<KeyComponent(f.height), KeyComponent(f.tbr), KeyComponent(f.filesize)>>

\* a <= b for keys compared lexicographically
LexLeq(a, b) ==
    \/ a[1] < b[1]
    \/ a[1] = b[1] /\ (a[2] < b[2] \/ (a[2] = b[2] /\ a[3] <= b[3]))

\* the format has a source URL
HasSourceUrl(f) == f.url.k = "val" /\ f.url.v # ""

\* the format declares a video codec
DeclaresVideoCodec(f) == f.vcodec.k = "val" /\ f.vcodec.v # "none"

\* the format is not declared audio-only: its vcodec entry is missing, null
\* or a codec, anything but the string "none"
NotDeclaredAudioOnly(f) == ~(f.vcodec.k = "val" /\ f.vcodec.v = "none")

\* the indices of the formats that pass the filter and whose key no other
\* format that passes exceeds
Greatest(formats, Passes(_)) ==
    {i \in 1..Len(formats) :
        /\ Passes(formats[i]) /\ HasSourceUrl(formats[i])
        /\ \A j \in 1..Len(formats) :
              (Passes(formats[j]) /\ HasSourceUrl(formats[j]))
                 => LexLeq(RankKey(formats[j]), RankKey(formats[i]))}

\* the indices of the formats with a source URL
WithSourceUrl(formats) == {i \in 1..Len(formats) : HasSourceUrl(formats[i])}

\* the selection the rule prescribes for a filter: the URL of the first of
\* the greatest formats that pass, else of the first format with a URL
Prescribed(formats, Passes(_)) ==
    IF Greatest(formats, Passes) # {}
      THEN <<formats[MinOf(Greatest(formats, Passes))].url.v>>
    ELSE IF WithSourceUrl(formats) # {}
      THEN <<formats[MinOf(WithSourceUrl(formats))].url.v>>
    ELSE <<>>

\* the metadata-extractor stage has chosen among the formats yt-dlp reported
MetadataChose == outcome["metadata"] \in {"ok", "empty"} /\ info.formats # Absent

\* C12 as stated: the metadata stage selects, among the formats that declare
\* a video codec and have a source URL, the URL of the one with the greatest
\* key (height, bitrate, file size), and when no format passes that filter
\* the URL of the first format that has a source URL.
C12_SelectsAmongDeclaredVideo ==
    MetadataChose => video_urls = Prescribed(info.formats.v, DeclaresVideoCodec)

\* C12 amended: the filter keeps every format with a source URL whose vcodec
\* is not the string "none", a format that reports no vcodec included; the
\* selected URL is that of the first, in reported order, of the kept formats
\* with the greatest key, and when none is kept that of the first format
\* with a source URL.
C12_SelectsAmongNotAudioOnly ==
    MetadataChose => video_urls = Prescribed(info.formats.v, NotDeclaredAudioOnly)

\* C12 witness: two video formats were reported, the second with the
\* greater height and the smaller bitrate, and the second was selected.
C12_Witness ==
    /\ MetadataChose
    /\ Len(info.formats.v) = 2
    /\ DeclaresVideoCodec(info.formats.v[1]) /\ DeclaresVideoCodec(info.formats.v[2])
    /\ RankKey(info.formats.v[1])[1] < RankKey(info.formats.v[2])[1]
    /\ RankKey(info.formats.v[1])[2] > RankKey(info.formats.v[2])[2]
    /\ video_urls = <<info.formats.v[2].url.v>>

\* the scanner has been called and has returned
Scanned == call.function = "extract_video_src_from_html"

\* the matches of the four patterns, tier after tier, each tier in document
\* order, every match resolved against the page URL
ResolvedMatches(html_content, base_url) ==
    LET found == FindAll(html_content, 1) \o FindAll(html_content, 2)
                   \o FindAll(html_content, 3) \o FindAll(html_content, 4)
    IN  [k \in 1..Len(found) |-> ResolveUrl(found[k], base_url)]

\* the position of the first occurrence of u in the sequence
FirstAt(seq, u) == MinOf({k \in 1..Len(seq) : seq[k] = u})

\* the URL is absolute
IsAbsoluteUrl(u) == StartsWith(u, "http://") \/ StartsWith(u, "https://")

\* out lists every element of seq once, in the order of first occurrence
FirstOccurrences(out, seq) ==
    /\ \A i, j \in 1..Len(out) : i # j => out[i] # out[j]
    /\ {out[i] : i \in 1..Len(out)} = {seq[k] : k \in 1..Len(seq)}
    /\ \A i, j \in 1..Len(out) : i < j => FirstAt(seq, out[i]) < FirstAt(seq, out[j])

\* C13: the list extract_video_src_from_html returns has no duplicate; it
\* holds the resolved (absolute) URL of every match, a URL matched more than
\* once, within a tier or across tiers, once at the position of its first
\* occurrence in tier order (video src, source src, data-src, quoted
\* absolute URL) and document order within a tier.
C13_ScannerKeepsFirstOccurrences ==
    Scanned =>
        \A resolved \in {ResolvedMatches(call.html_content, call.base_url)} :
            /\ FirstOccurrences(call.returned, resolved)
            /\ \A i \in 1..Len(call.returned) : IsAbsoluteUrl(call.returned[i])

\* C13 witness: a <source> with a protocol-relative src stands after a
\* script that quotes the same URL in absolute form and after a relative
\* <video src>: the list is the video src, then the one resolved URL.
C13_Witness ==
    /\ Scanned
    /\ call.base_url = RequestUrl
    /\ call.html_content =
         "<script>var u = \"https://cdn.test/v.mp4\";</script>"
           \o "<video controls><source src='//cdn.test/v.mp4'></video>"
    /\ call.returned = <<"https://cdn.test/v.mp4">>
    /\ Len(ResolvedMatches(call.html_content, call.base_url)) = 2

\* the lines the rule excludes: empty after trimming, the format header, a
\* line with the timestamp arrow, a line of digits only
ExcludedLine(l) ==
    \/ Strip(l) = ""
    \/ Strip(l) = "WEBVTT"
    \/ Contains(l, "-->")
    \/ IsDigit(Strip(l))

\* the text the rule prescribes: the tag-stripped text of every line that
\* is not excluded, top to bottom, joined by single spaces
PayloadText(vtt_content) ==
    LET payload == SelectSeq(Split(vtt_content, "\n"), LAMBDA l : ~ExcludedLine(l))
    IN  Join([k \in 1..Len(payload) |-> StripTags(Strip(payload[k]))])

\* C14: parse_vtt returns the tag-stripped text of the payload lines, top to
\* bottom, joined by single spaces; the lines left out are exactly those
\* empty after trimming, equal to the header, with the timestamp arrow, or
\* of digits only (so a text of such lines only gives the empty string).
C14_EveryPayloadLineContributes ==
    call.function = "parse_vtt" => call.returned = PayloadText(call.vtt_content)

\* C15: the metadata extractor is started only after a raw fetch that
\* returned HTML in which the scanner found no candidate; when the raw
\* fetch raises, the metadata extractor is never started and the request
\* is answered with the classification of that exception.
C15_MetadataOnlyAfterEmptyScan ==
    /\ Starts("metadata") > 0 => outcome["raw_fetch"] = "empty"
    /\ outcome["raw_fetch"] = "raised" =>
          /\ Starts("metadata") = 0
          /\ outcome["metadata"] = "none"
          /\ pc \in {"except", "respond", "done"}
          /\ Done =>
                /\ classify_calls = <<stage_error["raw_fetch"]>>
                /\ response.status = TableStatus(stage_error["raw_fetch"])
                /\ response.detail =
                      IF response.status = 500
                        THEN MsgInternalPrefix \o stage_error["raw_fetch"]
                        ELSE CanonicalDetail[FirstRule(stage_error["raw_fetch"])]

\* C15 witness: the raw fetch raised URLError (connection refused), and the
\* request was answered 503 without the metadata extractor.
C15_Witness ==
    /\ Done
    /\ outcome["raw_fetch"] = "raised"
    /\ stage_error["raw_fetch"] = "<urlopen error [Errno 111] Connection refused>"
    /\ started = <<"render", "raw_fetch">>
    /\ response.status = 503

\* the statuses of the decision table
ErrorStatuses == {400, 401, 403, 404, 408, 503, 500}

\* str() of the exception that ended a failed request: the validation error
\* of the response model when extract_video_url returned, else what the
\* stage started last raised (or the "no source" exception after it)
TerminalText ==
    IF result.kind = "return" THEN ValidationText ELSE stage_error[Last(started)]

\* the positions of a request, in the order control passes them
Positions ==
    <<"idle", "launch", "goto", "collect", "close", "resolve", "pw_exit",
      "render_return", "render_except", "fetch", "urlopen", "after_scan",
      "ydl", "extract_info", "finish", "except", "respond", "done">>

\* the rank of a position
Rank(p) == CHOOSE n \in 1..Len(Positions) : Positions[n] = p

\* the answer of a request: a 200 built from what extract_video_url
\* returned, or an HTTP error with the status and the detail that
\* classify_error assigns to the terminal exception
ClassifiedOutcome ==
    \/ /\ response.status = 200
       /\ result.kind = "return"
       /\ response = Ok200(result.title.v, result.video_url)
    \/ /\ response.status \in ErrorStatuses
       /\ response = HttpError(classify_error(TerminalText)[1],
                               classify_error(TerminalText)[2])
       /\ Last(classify_calls) = TerminalText

\* C16: a request is answered exactly once, with a 200 or with an HTTP error
\* whose status is one of 400, 401, 403, 404, 408, 503, 500 and equals the
\* status classify_error assigns to the terminal exception; an exception in
\* flight is always on its way to an except clause, every step of the
\* request moves forward, and the answer is given in the step that ends it.
C16_OneClassifiedOutcome ==
    /\ [](exc # NoExc => pc \in {"pw_exit", "render_except", "except"})
    /\ [](~Done => response = NoResponse)
    /\ [](Done => exc = NoExc /\ ClassifiedOutcome)
    /\ [][/\ Rank(pc') > Rank(pc)
          /\ response' # response => pc' = "done"]_request_vars

\* C16 witness: extract_video_url returned a result with a null title, the
\* response model rejected it, and the handler answered the classified 500.
C16_Witness ==
    /\ Done
    /\ result.kind = "return"
    /\ response.status = 500
    /\ Last(classify_calls) = ValidationText

====
